---- MODULE Spec2Model ----
(***************************************************************************)
(* Model of octo2sent.py: a timer-triggered function that pulls the events *)
(* of an Octopus Deploy space page by page (fetch_octopus_events) and      *)
(* uploads one log entry per event to Azure Monitor (main).                *)
(*                                                                         *)
(* Time is counted in whole hours since EpochDate 00:00 UTC.  Python       *)
(* values are tagged records: None, Str(s), Dict(d); a dict is a function  *)
(* from key strings to tagged values.                                      *)
(***************************************************************************)
EXTENDS Integers, Sequences, FiniteSets, TLC

----------------------------------------------------------------------------
(* Bounds of the model *)

\* the upstream holds 0..MaxPages full pages of recent events plus a rest
MaxPages == 2
\* the clock advances at most MaxTicks hours during one invocation
MaxTicks == 1

----------------------------------------------------------------------------
(* Python values *)

None == [ty |-> "none"]
Str(s) == [ty |-> "str", v |-> s]
Dict(d) == [ty |-> "dict", v |-> d]
EmptyDict == [k \in {} |-> None]

\* dict.get(k, default)
Get(d, k, default) == IF k \in DOMAIN d THEN d[k] ELSE default

\* truth value of an object: None, '' and {} are false
Truthy(x) ==
  CASE x.ty = "none" -> FALSE
    [] x.ty = "str"  -> x.v # ""
    [] x.ty = "dict" -> DOMAIN x.v # {}

----------------------------------------------------------------------------
(* Calendar: datetime arithmetic, strftime('%m/%d/%Y'), isoformat() *)

EpochDate == [y |-> 2023, m |-> 12, d |-> 30]

IsLeap(y) == (y % 4 = 0 /\ y % 100 # 0) \/ y % 400 = 0

DaysInMonth(y, m) ==
  IF m = 2 THEN (IF IsLeap(y) THEN 29 ELSE 28)
  ELSE IF m \in {4, 6, 9, 11} THEN 30 ELSE 31

NextDay(dt) ==
  IF dt.d < DaysInMonth(dt.y, dt.m) THEN [dt EXCEPT !.d = dt.d + 1]
  ELSE IF dt.m < 12 THEN [dt EXCEPT !.m = dt.m + 1, !.d = 1]
  ELSE [y |-> dt.y + 1, m |-> 1, d |-> 1]

RECURSIVE AddDays(_, _)
AddDays(dt, n) == IF n = 0 THEN dt ELSE AddDays(NextDay(dt), n - 1)

\* the calendar date of an instant given in hours since the epoch
DateOf(h) == AddDays(EpochDate, h \div 24)

\* zero-padded decimal of width 2 (%m, %d) and 4 (%Y)
Pad2(n) == IF n < 10 THEN "0" \o ToString(n) ELSE ToString(n)
Pad4(n) ==
  IF n < 10 THEN "000" \o ToString(n)
  ELSE IF n < 100 THEN "00" \o ToString(n)
  ELSE IF n < 1000 THEN "0" \o ToString(n)
  ELSE ToString(n)

\* strftime('%m/%d/%Y'): the time of day is dropped
StrfDate(h) ==
  LET dt == DateOf(h) IN Pad2(dt.m) \o "/" \o Pad2(dt.d) \o "/" \o Pad4(dt.y)

\* isoformat(): date and time of day
IsoFormat(h) ==
  LET dt == DateOf(h) IN
    Pad4(dt.y) \o "-" \o Pad2(dt.m) \o "-" \o Pad2(dt.d) \o "T"
      \o Pad2(h % 24) \o ":00:00"

----------------------------------------------------------------------------
(* os.environ and int() *)

RequiredKeys ==
  {"OCTOPUS_BASE_URL", "OCTOPUS_API_KEY", "OCTOPUS_SPACE_ID",
   "DATA_COLLECTION_ENDPOINT", "LOGS_DCR_RULE_ID", "LOGS_DCR_STREAM_NAME"}

DigitVal(c) ==
  CASE c = "0" -> 0 [] c = "1" -> 1 [] c = "2" -> 2 [] c = "3" -> 3
    [] c = "4" -> 4 [] c = "5" -> 5 [] c = "6" -> 6 [] c = "7" -> 7
    [] c = "8" -> 8 [] c = "9" -> 9

\* int(s) of a string of decimal digits, given as its sequence of characters
RECURSIVE IntOf(_)
IntOf(s) ==
  IF s = <<>> THEN 0
  ELSE 10 * IntOf(SubSeq(s, 1, Len(s) - 1)) + DigitVal(s[Len(s)])

\* int(os.environ.get('EVENTS_HOURS_BACK', '1'))
HoursBack(environ) == IntOf(Get(environ, "EVENTS_HOURS_BACK", <<"1">>))

----------------------------------------------------------------------------
(* The upstream: the events the Octopus server holds and how it serves them *)

\* page size asked for on every request (params['take'])
Take == 1000

\* the shapes an event of the upstream can have: which keys it carries and
\* whether a nested object is an object, null, empty or lacks its name
NShapes == 2 * 4

User(i) == Dict([DisplayName |-> Str("user" \o ToString(i % 3)), Id |-> Str("Users-1")])
Ref(kind, i) == Dict([Id |-> Str(kind \o "-" \o ToString(i % 3)), Name |-> Str(kind)])

Core(i, occ) ==
  [Occurred |-> Str(IsoFormat(occ)), Id |-> Str("Events-" \o ToString(i)),
   Category |-> Str("Modified"), Message |-> Str("m" \o ToString(i)),
   Severity |-> Str("Info")]

\* the event with sequence number i, which occurred at hour occ
EventOf(i, occ) ==
  LET core == Core(i, occ)
      c == i % NShapes
  IN CASE c = 1 -> core @@ [User |-> User(i), Project |-> Ref("Projects", i),
                            Environment |-> Ref("Environments", i),
                            Tenant |-> Ref("Tenants", i)]
       [] c = 2 -> core
       [] c = 3 -> core @@ [User |-> None, Project |-> None,
                            Environment |-> None, Tenant |-> None]
       [] c = 4 -> core @@ [User |-> Dict(EmptyDict), Project |-> Dict(EmptyDict),
                            Environment |-> Dict(EmptyDict), Tenant |-> Dict(EmptyDict)]
       [] c = 5 -> core @@ [User |-> Dict([Id |-> Str("Users-2")]),
                            Project |-> Dict([Id |-> Str("Projects-9")]),
                            Tenant |-> Dict([Name |-> Str("T")])]
       [] c = 6 -> [Message |-> Str("m" \o ToString(i))]
       [] c = 7 -> core @@ [User |-> Dict([DisplayName |-> None]),
                            Project |-> Dict([Id |-> Str("Projects-1"), Name |-> None])]
       [] OTHER -> [core EXCEPT !.Id = None, !.Severity = None]

\* hours at which the older events of the upstream occurred, and the hour of
\* its recent events
OldTimes == <<10, 30, 47>>
RecentHour == 2 * 24

\* every event the server may hold, in order of occurrence: the older ones,
\* then the recent ones
MaxRecent == (MaxPages + 1) * Take
Universe ==
  LET nOld == Len(OldTimes)
      u == [i \in 1..(nOld + MaxRecent) |->
              LET occ == IF i <= nOld THEN OldTimes[i] ELSE RecentHour
              IN [occ |-> occ, ev |-> EventOf(i, occ)]]
  IN SubSeq(u, 1, nOld + MaxRecent)

\* what the server holds: the last nOld of the older events, then the first
\* nRecent of the recent ones
Store(up) ==
  SubSeq(Universe, Len(OldTimes) - up.nOld + 1, Len(OldTimes) + up.nRecent)

\* the server reads the 'from' parameter as a date: 00:00 of that day
Days == 0..4
ParseDate(s) == 24 * (CHOOSE d \in Days : StrfDate(24 * d) = s)

\* the stored events occurring on or after 'from', in order
Matching(up, from) ==
  LET t == ParseDate(from)
      IsIn(e) == e.occ >= t
  IN SelectSeq(Store(up), IsIn)

Min(a, b) == IF a < b THEN a ELSE b

\* the page the server answers to ?from=..&skip=..&take=..
Page(up, from, skip, take) ==
  LET all == Matching(up, from)
      pg == SubSeq(all, skip + 1, Min(skip + take, Len(all)))
  IN [i \in 1..Len(pg) |-> pg[i].ev]

----------------------------------------------------------------------------
(* main: the projection of an event into a log entry *)

\* variant: a missing object yields None instead of ''
NestedOrNone(event, key, field) ==
  IF Truthy(Get(event, key, None))
  THEN Get(Get(event, key, Dict(EmptyDict)).v, field, Str(""))
  ELSE None

\* event.get(key, {}).get(field, '') if event.get(key) else ''
Nested(event, key, field) ==
  IF Truthy(Get(event, key, None))
  THEN Get(Get(event, key, Dict(EmptyDict)).v, field, Str(""))
  ELSE Str("")

FullEntry(event, now) ==
  [Time            |-> Get(event, "Occurred", Str(IsoFormat(now))),
   EventId         |-> Get(event, "Id", Str("")),
   Category        |-> Get(event, "Category", Str("")),
   Message         |-> Get(event, "Message", Str("")),
   Severity        |-> Get(event, "Severity", Str("")),
   User            |-> Nested(event, "User", "DisplayName"),
   ProjectId       |-> Nested(event, "Project", "Id"),
   ProjectName     |-> Nested(event, "Project", "Name"),
   EnvironmentId   |-> Nested(event, "Environment", "Id"),
   EnvironmentName |-> Nested(event, "Environment", "Name"),
   TenantId        |-> Nested(event, "Tenant", "Id"),
   TenantName      |-> Nested(event, "Tenant", "Name")]

\* variant: the fields that came out empty are left out of the entry
LogEntrySparse(event, now) ==
  LET e == FullEntry(event, now)
  IN [k \in {f \in DOMAIN e : e[f] # Str("")} |-> e[k]]

\* the log entry of an event, lines 38-52
LogEntry(event, now) == FullEntry(event, now)

\* variant: only the first page of events is formatted
FormatLogsFirstPage(evs, now) ==
  [i \in 1..(IF Len(evs) < Take THEN Len(evs) ELSE Take) |-> LogEntry(evs[i], now)]

\* variant: each entry is put at the front of the list
FormatLogsReversed(evs, now) ==
  [i \in 1..Len(evs) |-> LogEntry(evs[Len(evs) + 1 - i], now)]

\* logs = []; for event in events: logs.append(log_entry)
FormatLogs(evs, now) == [i \in 1..Len(evs) |-> LogEntry(evs[i], now)]

----------------------------------------------------------------------------
(* main: the handlers of the ingestion try block *)

\* the classes an exception raised by the Azure SDK is an instance of
Bases(exc) ==
  CASE exc = "HttpResponseError"       -> {"HttpResponseError", "AzureError", "Exception"}
    [] exc = "ServiceRequestError"     -> {"ServiceRequestError", "AzureError", "Exception"}
    [] exc = "CredentialUnavailableError"
         -> {"CredentialUnavailableError", "ClientAuthenticationError",
             "HttpResponseError", "AzureError", "Exception"}
    [] exc = "ValueError"              -> {"ValueError", "Exception"}

\* variant: the try block has the typed clause only
HandlersTypedOnly ==
  << [class |-> "HttpResponseError", text |-> "Ingestion failed"] >>

\* the except clauses, in order: the first whose class matches handles it
Handlers ==
  << [class |-> "HttpResponseError", text |-> "Ingestion failed"],
     [class |-> "Exception", text |-> "Unexpected error during ingestion"] >>

Handling(exc) == {i \in 1..Len(Handlers) : Handlers[i].class \in Bases(exc)}

Caught(exc) == Handling(exc) # {}

HandlerOf(exc) == Handlers[CHOOSE i \in Handling(exc) : \A j \in Handling(exc) : i <= j]

----------------------------------------------------------------------------
(* State *)

VARIABLES
  environ,     \* os.environ of the function app
  upstream,    \* what the Octopus server holds: [nOld, nRecent]
  clock,       \* datetime.utcnow(), in hours since the epoch
  ticks,       \* hours the clock advanced during the invocation
  pc,          \* where main is: start, fetching, credential, client, upload,
               \* done (returned), raised (ended by an exception)
  hours_back,  \* main: hours_back
  from_date,   \* fetch_octopus_events: from_date
  skip,        \* fetch_octopus_events: skip
  all_events,  \* fetch_octopus_events: all_events
  requests,    \* the GET requests sent so far, each with its answer
  events,      \* main: events (Unbound until the fetch returns)
  logs,        \* main: logs
  credential,  \* main: credential ("unbound" until created)
  client,      \* main: client ("unbound" until created)
  uploads,     \* the client.upload calls made so far
  applog,      \* what app_logger was given: <<level, text>>
  raised       \* the exception main ended with, "" if none

vars == << environ, upstream, clock, ticks, pc, hours_back, from_date, skip,
           all_events, requests, events, logs, credential, client, uploads,
           applog, raised >>

\* a local of main that holds a list: not yet assigned, or assigned v
Unbound == [bound |-> FALSE, val |-> <<>>]
Bound(v) == [bound |-> TRUE, val |-> v]

FullEnviron ==
  [OCTOPUS_BASE_URL |-> "https://octo", OCTOPUS_API_KEY |-> "API-KEY",
   OCTOPUS_SPACE_ID |-> "Spaces-1", DATA_COLLECTION_ENDPOINT |-> "https://dce",
   LOGS_DCR_RULE_ID |-> "dcr-1", LOGS_DCR_STREAM_NAME |-> "Custom-OctopusEvents_CL"]

Without(d, k) == [x \in DOMAIN d \ {k} |-> d[x]]

\* the configurations tried: lookback unset, 2 and 25 hours; a key missing
Environs ==
  {FullEnviron,
   FullEnviron @@ [EVENTS_HOURS_BACK |-> <<"2">>],
   FullEnviron @@ [EVENTS_HOURS_BACK |-> <<"2", "5">>],
   Without(FullEnviron, "OCTOPUS_API_KEY")}

\* the times of the invocation tried
Nows == {RecentHour, RecentHour + 1, RecentHour + 10}

\* the numbers of recent events tried around the page boundaries: up to
\* MaxPages full pages and a rest
Rests == {0, 1, Take - 1}
Sizes == {k * Take + m : k \in 0..MaxPages, m \in Rests}

\* the invocations tried: every configuration and time against a server
\* with a few events, and the page boundaries against a server with none or
\* one of the older events, under the default configuration
FewInputs ==
  [environ : Environs,
   upstream : [nOld : 0..Len(OldTimes), nRecent : 0..2],
   clock : Nows]
ManyInputs ==
  [environ : {FullEnviron},
   upstream : [nOld : {0, 1}, nRecent : Sizes],
   clock : {RecentHour}]

Init ==
  /\ \E in \in FewInputs \cup ManyInputs :
       /\ environ = in.environ
       /\ upstream = in.upstream
       /\ clock = in.clock
  /\ ticks = 0
  /\ pc = "start"
  /\ hours_back = 0
  /\ from_date = ""
  /\ skip = 0
  /\ all_events = <<>>
  /\ requests = <<>>
  /\ events = Unbound
  /\ logs = <<>>
  /\ credential = "unbound"
  /\ client = "unbound"
  /\ uploads = <<>>
  /\ applog = <<>>
  /\ raised = ""

Log(level, text) == applog' = Append(applog, <<level, text>>)
Log2(l1, t1, l2, t2) == applog' = applog \o << <<l1, t1>>, <<l2, t2>> >>

----------------------------------------------------------------------------
(* main, lines 13-25, and fetch_octopus_events up to its loop, lines 71-79 *)

MainStart ==
  /\ pc = "start"
  /\ RequiredKeys \subseteq DOMAIN environ
  /\ hours_back' = HoursBack(environ)
  /\ Log("info", "Starting Octopus events pull for space " \o environ["OCTOPUS_SPACE_ID"])
  /\ from_date' = StrfDate(clock - hours_back')
  /\ all_events' = <<>>
  /\ skip' = 0
  /\ pc' = "fetching"
  /\ UNCHANGED << environ, upstream, clock, ticks, requests, events, logs,
                  credential, client, uploads, raised >>

\* os.environ[...] of a key that is not set
MainKeyError ==
  /\ pc = "start"
  /\ ~(RequiredKeys \subseteq DOMAIN environ)
  /\ pc' = "raised"
  /\ raised' = "KeyError"
  /\ UNCHANGED << environ, upstream, clock, ticks, hours_back, from_date, skip,
                  all_events, requests, events, logs, credential, client, uploads,
                  applog >>

----------------------------------------------------------------------------
(* fetch_octopus_events: one turn of the loop, lines 82-94 *)

Request(answer, n) ==
  [url |-> environ["OCTOPUS_BASE_URL"] \o "/api/" \o environ["OCTOPUS_SPACE_ID"] \o "/events",
   key |-> environ["OCTOPUS_API_KEY"],
   from |-> from_date, take |-> Take, skip |-> skip,
   answer |-> answer, n |-> n]

\* data.get('Items', []) of the body the server sends: with the page, or
\* without the key
Items(body) ==
  IF body = "page" THEN Page(upstream, from_date, skip, Take) ELSE <<>>

\* variant: the loop goes on only after a page of more than take items
MorePagesStrict(items) == Len(items) > Take

\* the loop goes on after a page of at least params['take'] items
MorePages(items) == ~(Len(items) < Take)

\* variant: skip counts pages, not items
NextSkipByOne == skip + 1

\* skip += params['take']
NextSkip == skip + Take

\* variant: main tests events against None, which a list never is
NothingFetchedIsNone(evs) == FALSE

\* main, line 31: not events
NothingFetched(evs) == evs = <<>>

\* variant: the status of the answer is not looked at; an error body has no
\* 'Items', so it counts as an empty last page
FetchIgnoresStatus ==
  /\ pc = "fetching"
  /\ requests' = Append(requests, Request("HTTPError", 0))
  /\ events' = Bound(all_events)
  /\ all_events' = <<>>
  /\ logs' = FormatLogs(all_events, clock)
  /\ pc' = IF NothingFetched(all_events) THEN "done" ELSE "credential"
  /\ UNCHANGED << environ, upstream, clock, ticks, hours_back, from_date, skip,
                  credential, client, uploads, applog, raised >>

\* requests.get raises (no answer) or raise_for_status raises (status >= 400)
FetchRaises ==
  /\ pc = "fetching"
  /\ \E exc \in {"ConnectionError", "HTTPError"} :
       /\ requests' = Append(requests, Request(exc, 0))
       /\ raised' = exc
  /\ pc' = "raised"
  /\ all_events' = <<>>
  /\ UNCHANGED << environ, upstream, clock, ticks, hours_back, from_date, skip,
                  events, logs, credential, client, uploads, applog >>

\* a full page: extend all_events, advance skip, loop
FetchMore ==
  /\ pc = "fetching"
  /\ \E body \in {"page", "empty"} :
       LET items == Items(body) IN
         /\ MorePages(items)
         /\ requests' = Append(requests, Request(body, Len(items)))
         /\ all_events' = all_events \o items
  /\ skip' = NextSkip
  /\ UNCHANGED << environ, upstream, clock, ticks, pc, hours_back, from_date,
                  events, logs, credential, client, uploads, applog, raised >>

\* a short page: break, return all_events; main lines 28-33: nothing fetched
FetchLastEmpty ==
  /\ pc = "fetching"
  /\ \E body \in {"page", "empty"} :
       LET items == Items(body)
           all == all_events \o items
       IN /\ ~MorePages(items)
          /\ NothingFetched(all)
          /\ requests' = Append(requests, Request(body, Len(items)))
          /\ events' = Bound(all)
  /\ all_events' = <<>>
  /\ Log2("info", "Fetched 0 events", "warning", "No events to ingest")
  /\ pc' = "done"
  /\ UNCHANGED << environ, upstream, clock, ticks, hours_back, from_date, skip,
                  logs, credential, client, uploads, raised >>

\* a short page: break, return all_events; main lines 28-53: format the logs
FetchLast ==
  /\ pc = "fetching"
  /\ \E body \in {"page", "empty"} :
       LET items == Items(body)
           all == all_events \o items
       IN /\ ~MorePages(items)
          /\ ~NothingFetched(all)
          /\ requests' = Append(requests, Request(body, Len(items)))
          /\ events' = Bound(all)
          /\ Log("info", "Fetched " \o ToString(Len(all)) \o " events")
          /\ logs' = FormatLogs(all, clock)
  /\ all_events' = <<>>
  /\ pc' = "credential"
  /\ UNCHANGED << environ, upstream, clock, ticks, hours_back, from_date, skip,
                  credential, client, uploads, raised >>

----------------------------------------------------------------------------
(* main: the ingestion try block, lines 56-64 *)

\* an exception inside the try block: the matching except clause logs it and
\* main returns; one that no clause matches leaves main
Except(exc) ==
  IF Caught(exc)
  THEN /\ Log("error", HandlerOf(exc).text)
       /\ pc' = "done"
       /\ UNCHANGED raised
  ELSE /\ pc' = "raised"
       /\ raised' = exc
       /\ UNCHANGED applog

\* DefaultAzureCredential()
CreateCredential ==
  /\ pc = "credential"
  /\ \/ /\ credential' = "DefaultAzureCredential"
        /\ pc' = "client"
        /\ UNCHANGED << applog, raised >>
     \/ /\ Except("ValueError")
        /\ UNCHANGED credential
  /\ UNCHANGED << environ, upstream, clock, ticks, hours_back, from_date, skip,
                  all_events, requests, events, logs, client, uploads >>

\* LogsIngestionClient(endpoint=..., credential=..., logging_enable=True)
CreateClient ==
  /\ pc = "client"
  /\ \/ /\ client' = "LogsIngestionClient"
        /\ pc' = "upload"
        /\ UNCHANGED << applog, raised >>
     \/ /\ Except("ValueError")
        /\ UNCHANGED client
  /\ UNCHANGED << environ, upstream, clock, ticks, hours_back, from_date, skip,
                  all_events, requests, events, logs, credential, uploads >>

\* client.upload(rule_id=..., stream_name=..., logs=logs)
Upload ==
  /\ pc = "upload"
  /\ uploads' = Append(uploads, [endpoint |-> environ["DATA_COLLECTION_ENDPOINT"],
                                 rule_id |-> environ["LOGS_DCR_RULE_ID"],
                                 stream_name |-> environ["LOGS_DCR_STREAM_NAME"],
                                 logs |-> logs])
  /\ \/ /\ Log("info", "Successfully ingested " \o ToString(Len(logs)) \o " events to Sentinel")
        /\ pc' = "done"
        /\ UNCHANGED raised
     \/ \E exc \in {"HttpResponseError", "CredentialUnavailableError",
                    "ServiceRequestError"} : Except(exc)
  /\ UNCHANGED << environ, upstream, clock, ticks, hours_back, from_date, skip,
                  all_events, requests, events, logs, credential, client >>

\* time passes while the fetch runs (the clock is read at lines 75 and 39)
Tick ==
  /\ pc = "fetching"
  /\ ticks < MaxTicks
  /\ clock' = clock + 1
  /\ ticks' = ticks + 1
  /\ UNCHANGED << environ, upstream, pc, hours_back, from_date, skip,
                  all_events, requests, events, logs, credential, client, uploads, applog, raised >>

Next ==
  \/ MainStart
  \/ MainKeyError
  \/ FetchRaises
  \/ FetchMore
  \/ FetchLastEmpty
  \/ FetchLast
  \/ CreateCredential
  \/ CreateClient
  \/ Upload
  \/ Tick

Spec == Init /\ [][Next]_vars

----------------------------------------------------------------------------
(* Vocabulary of the properties *)

\* fetch_octopus_events has returned its list to main
Returned == events.bound

\* request i was answered with a body (status 200), not with an exception
Answered(i) == requests[i].answer \in {"page", "empty"}
AllAnswered == \A i \in 1..Len(requests) : Answered(i)

\* the items the server sent in answer to request i
ItemsOf(i) ==
  IF requests[i].answer = "page"
  THEN Page(upstream, requests[i].from, requests[i].skip, requests[i].take)
  ELSE <<>>

\* the items of the first n answers, concatenated in request order
RECURSIVE Concatenated(_)
Concatenated(n) == IF n = 0 THEN <<>> ELSE Concatenated(n - 1) \o ItemsOf(n)

\* the time at which fetch_octopus_events read the clock
FetchNow == clock - ticks

\* the batch of upload call c
Batch(c) == uploads[c].logs

----------------------------------------------------------------------------
(* C1: when the upstream answers k full pages of 1000 items and then a page  *)
(* of m < 1000 items, the fetch sends exactly k+1 requests, with skip = 0,  *)
(* 1000, ..., k*1000 in that order and take = 1000 on each, and returns the *)
(* concatenation of the pages' items in request order.                      *)
C1_Pagination ==
  LET n == Len(requests) IN
    /\ \A i \in 1..n : requests[i].skip = (i - 1) * 1000 /\ requests[i].take = 1000
    /\ \A i \in 1..(n - 1) : Answered(i) /\ requests[i].n = 1000
    /\ Returned =>
         /\ n >= 1 /\ Answered(n) /\ requests[n].n < 1000
         /\ Len(events.val) = (n - 1) * 1000 + requests[n].n
         /\ events.val = Concatenated(n)

\* two full pages and a partial one: three requests, 2000 + m events
C1_Witness ==
  /\ Returned
  /\ Len(requests) = 3
  /\ requests[3].n \in 1..999
  /\ Len(events.val) = 2000 + requests[3].n

(* C2: when the upstream holds N events, N a non-zero multiple of the page  *)
(* size, and serves them by skip/take, the fetch makes exactly one extra    *)
(* request, answered with an empty page, and returns the N events once     *)
(* each; the loop never makes more than N div 1000 + 1 requests, and it     *)
(* ends normally exactly when a page shorter than the page size (or a body *)
(* without 'Items') has been received.                                     *)
C2_StopsOnShortPage ==
  from_date # "" =>
    LET n == Len(requests)
        served == Matching(upstream, from_date)
        N == Len(served)
        Short(i) == Answered(i) /\ requests[i].n < 1000
    IN /\ n <= N \div 1000 + 1
       /\ \A i \in 1..n : Short(i) => i = n /\ Returned
       /\ Returned => n >= 1 /\ Short(n)
       /\ pc = "fetching" => \A i \in 1..n : ~Short(i)
       /\ (Returned /\ N > 0 /\ N % 1000 = 0 /\ \A i \in 1..n : requests[i].answer = "page") =>
            /\ n = N \div 1000 + 1
            /\ requests[n].n = 0
            /\ events.val = [i \in 1..N |-> served[i].ev]

\* 2000 events upstream: a third request, answered with an empty page
C2_Witness ==
  /\ Returned
  /\ Len(requests) = 3
  /\ requests[3].answer = "page"
  /\ requests[3].n = 0
  /\ Len(events.val) = 2000

(* C3: a page request, the first or a later one, that ends with a          *)
(* non-success status (or with no answer) is the last request of the       *)
(* invocation: nothing is returned to main, no upload call is made, and     *)
(* main ends by raising that error.                                        *)
C3_FetchErrorIsFatal ==
  \A i \in 1..Len(requests) :
    ~Answered(i) =>
      /\ i = Len(requests)
      /\ pc = "raised"
      /\ raised = requests[i].answer
      /\ events = Unbound
      /\ logs = <<>>
      /\ uploads = <<>>

\* the third request, after two full pages, is answered with an error status
C3_Witness ==
  /\ Len(requests) = 3
  /\ requests[3].answer = "HTTPError"
  /\ requests[2].n = 1000
  /\ pc = "raised"

(* C4: a failure of the ingestion step (creating the credential, creating  *)
(* the client or uploading; HttpResponseError or any other exception) is   *)
(* caught and logged at error level, and main returns normally: main never *)
(* ends by raising once the fetch has returned, and no second upload call  *)
(* is made.                                                                *)
C4_IngestionErrorsSwallowed ==
  /\ pc = "raised" => ~Returned
  /\ Returned => raised = ""
  /\ Len(uploads) <= 1
  /\ \A i \in 1..Len(applog) :
       applog[i][1] = "error" =>
         /\ i = Len(applog)
         /\ pc = "done"
         /\ applog[i][2] \in {"Ingestion failed", "Unexpected error during ingestion"}

\* the upload was called once, failed with an exception that is not an
\* HttpResponseError, and main has returned
C4_Witness ==
  /\ pc = "done"
  /\ Len(uploads) = 1
  /\ applog[Len(applog)] = <<"error", "Unexpected error during ingestion">>

(* C5: when the fetch returns an empty list, main ends normally without    *)
(* creating the credential or the client and without any upload call.      *)
C5_EmptyFetchNoUpload ==
  (Returned /\ events.val = <<>>) =>
    /\ pc = "done"
    /\ raised = ""
    /\ credential = "unbound"
    /\ client = "unbound"
    /\ uploads = <<>>
    /\ applog[Len(applog)] = <<"warning", "No events to ingest">>

\* an empty fetch from a server that holds events (a body without 'Items')
C5_Witness ==
  /\ Returned
  /\ events.val = <<>>
  /\ pc = "done"
  /\ upstream.nRecent > 0

(* C6: at most one upload call is made per invocation, only after the      *)
(* fetch has completed (its last request was answered with a short page),  *)
(* and its batch has one entry per fetched event: never a strict non-empty *)
(* subset of them.                                                         *)
C6_OneBatchAllOrNothing ==
  /\ Len(uploads) <= 1
  /\ uploads # <<>> =>
       /\ Returned
       /\ pc = "done"
       /\ AllAnswered
       /\ requests[Len(requests)].n < Take
       /\ Len(Batch(1)) = Len(events.val)
       /\ Len(Batch(1)) = Len(Concatenated(Len(requests)))

\* one upload of more than two pages of events
C6_Witness ==
  /\ Len(uploads) = 1
  /\ Len(requests) = 3
  /\ Len(Batch(1)) > 2 * Take

(* C7: the fetch sends as 'from' the calendar date (MM/DD/YYYY) of the UTC *)
(* time now minus the lookback hours, the lookback being 1 when            *)
(* EVENTS_HOURS_BACK is unset, and, against a server that returns every    *)
(* event occurring on or after 'from', returns exactly the events that     *)
(* occurred within [now - lookback, now], in order.                        *)
C7_ExactWindow ==
  from_date # "" =>
    LET lookback == IF "EVENTS_HOURS_BACK" \in DOMAIN environ
                    THEN IntOf(environ["EVENTS_HOURS_BACK"]) ELSE 1
        InWindow(e) == FetchNow - lookback <= e.occ /\ e.occ <= FetchNow
        window == SelectSeq(Store(upstream), InWindow)
    IN /\ hours_back = lookback
       /\ from_date = StrfDate(FetchNow - lookback)
       /\ \A i \in 1..Len(requests) : requests[i].from = from_date
       /\ (Returned /\ \A i \in 1..Len(requests) : requests[i].answer = "page") =>
            events.val = [i \in 1..Len(window) |-> window[i].ev]

(* C8: the batch passed to upload has one entry per fetched event, the     *)
(* i-th entry being the projection of the i-th event: none dropped,        *)
(* duplicated or reordered.                                                *)
C8_OneEntryPerEventInOrder ==
  \A c \in 1..Len(uploads) :
    /\ Len(Batch(c)) = Len(events.val)
    /\ Batch(c) = logs
    /\ \A i \in 1..Len(events.val) :
         /\ Batch(c)[i].Message = Get(events.val[i], "Message", Str(""))
         /\ Batch(c)[i] = LogEntry(events.val[i], clock)

\* a batch of two pages and more, whose events all differ from their neighbours
C8_Witness ==
  /\ Len(uploads) = 1
  /\ Len(Batch(1)) > 2 * Take
  /\ \A i \in 1..(Len(events.val) - 1) : events.val[i] # events.val[i + 1]

\* the nested objects of an event and the fields of the entry made from each
Objects == {"User", "Project", "Environment", "Tenant"}
FieldsOf(key) == IF key = "User" THEN {"User"} ELSE {key \o "Id", key \o "Name"}
HasObject(ev, key) == Truthy(Get(ev, key, None))
Copied == {<<"Id", "EventId">>, <<"Category", "Category">>,
           <<"Message", "Message">>, <<"Severity", "Severity">>}
CopiedVerbatim(ev, e) == \A kf \in Copied : kf[1] \in DOMAIN ev => e[kf[2]] = ev[kf[1]]
EmptyObjectFields(e) ==
  {f \in DOMAIN e \ {"Time", "EventId", "Category", "Message", "Severity"} :
     e[f] = Str("")}

(* C9 as stated: an event with no Project, Environment, Tenant or User     *)
(* object (absent, null or empty) maps to an entry with empty strings in   *)
(* the corresponding five fields, and with identifier, category, message   *)
(* and severity copied verbatim.                                           *)
C9_FiveEmptyFields ==
  \A i \in 1..Len(logs) :
    LET ev == events.val[i]
        e == logs[i]
    IN (\A key \in Objects : ~HasObject(ev, key)) =>
         /\ Cardinality(EmptyObjectFields(e)) = 5
         /\ CopiedVerbatim(ev, e)

(* C9, amended: for each of User, Project, Environment and Tenant that the *)
(* event lacks (absent, null or empty), the entry holds the empty string   *)
(* in the fields made from it, never null and never a missing key; these   *)
(* are seven fields when all four are lacking; identifier, category,       *)
(* message and severity are copied verbatim.                               *)
C9_SevenEmptyFields ==
  \A i \in 1..Len(logs) :
    LET ev == events.val[i]
        e == logs[i]
    IN /\ \A key \in Objects :
            ~HasObject(ev, key) =>
              \A f \in FieldsOf(key) : f \in DOMAIN e /\ e[f] = Str("")
       /\ (\A key \in Objects : ~HasObject(ev, key)) =>
            Cardinality(EmptyObjectFields(e)) = 7
       /\ CopiedVerbatim(ev, e)

\* entries made from an event without the four keys, from one with the keys
\* set to null and from one with the keys set to {}
C9_Witness ==
  /\ Returned
  /\ \E i, j, k \in 1..Len(logs) :
       /\ Objects \cap DOMAIN events.val[i] = {}
       /\ "Id" \in DOMAIN events.val[i]
       /\ "Project" \in DOMAIN events.val[j] /\ events.val[j]["Project"] = None
       /\ "Tenant" \in DOMAIN events.val[k] /\ events.val[k]["Tenant"] = Dict(EmptyDict)
       /\ logs[i].User = Str("")
       /\ logs[j].ProjectName = Str("")
       /\ logs[k].TenantId = Str("")

EntryKeys ==
  {"Time", "EventId", "Category", "Message", "Severity", "User", "ProjectId",
   "ProjectName", "EnvironmentId", "EnvironmentName", "TenantId", "TenantName"}

(* C10 as stated: every log entry has exactly eleven named fields, the     *)
(* same set of keys for every event.                                       *)
C10_ElevenFields ==
  \A i \in 1..Len(logs) :
    /\ Cardinality(DOMAIN logs[i]) = 11
    /\ DOMAIN logs[i] = DOMAIN logs[1]

(* C10, amended: every log entry has exactly twelve named fields, the same *)
(* set of keys for every event, whichever top-level fields or nested       *)
(* objects the event has or lacks.                                         *)
C10_TwelveFields ==
  \A i \in 1..Len(logs) :
    /\ Cardinality(DOMAIN logs[i]) = 12
    /\ DOMAIN logs[i] = EntryKeys
    /\ DOMAIN logs[i] = DOMAIN logs[1]

\* entries made from events with different sets of keys
C10_Witness ==
  /\ Returned
  /\ \E i, j \in 1..Len(logs) :
       /\ DOMAIN events.val[i] = {"Message"}
       /\ Objects \subseteq DOMAIN events.val[j]
       /\ DOMAIN logs[i] = DOMAIN logs[j]

====
